---------------------------- MODULE Spec2Model ----------------------------
(***************************************************************************)
(* The POST handler of the chat endpoint (src/app/api/chat/route.ts) and   *)
(* the variants of it kept in the repository.  One request is followed     *)
(* from its arrival to its response: content-type dispatch, the image      *)
(* pipeline (OCR call, classification call, parse, render) and the text    *)
(* path (moderation call, short-circuit stream or the streamText loop).    *)
(*                                                                         *)
(* Texts are modelled by what the code does with them: a header is the     *)
(* sequence of its pieces, a message text is a sequence of characters, an  *)
(* OCR output is a core string with or without surrounding white space,    *)
(* a classifier output is a JSON value together with the way it is wrapped.*)
(*                                                                         *)
(* Three further specifications share the module: the parse step taken     *)
(* alone (ExtractionSpec), two calls of the handler interleaved at their   *)
(* awaits (PairSpec), and the upload handler of the page that calls the    *)
(* endpoint (PageSpec, src/app/page.tsx and its variants).                 *)
(***************************************************************************)
EXTENDS Naturals, Sequences, FiniteSets, TLC

VARIABLES
    variant,         \* which version of the handler serves the request
    request,         \* the inbound request; NoRequest once the handler has returned
    pc,              \* position of the handler / of the streamText loop
    path,            \* "none" | "image" | "text": the branch taken at dispatch
    bodyReads,       \* the reads of the request body, in order
    imageBytes,      \* bytes embedded in the OCR prompt: "none"|"original"|"processed"
    extracted,       \* the handler's local `extracted`
    classifierInput, \* the text embedded in the classification call in flight
    modRequest,      \* the text of the moderation call in flight
    ocrOutput,       \* the output_text the OCR call returned
    classifierOutput,\* the output_text the classification call returned
    verdict,         \* the verdict isContentFlagged returned
    calls,           \* number of calls made to each external collaborator
    events,          \* the StreamEvents written to the response stream
    response,        \* the HTTP response returned to the caller
    extraction,      \* the parse step taken alone: a record, its text, `parsed`
    running,         \* two requests at once: the invocation whose frame is above
    parked,          \* two requests at once: the invocation waiting at an await
    delivered,       \* two requests at once: what each invocation answered
    overlapped,      \* two requests at once: an invocation was parked mid-flight
    page,            \* the upload page: which version of it is shown
    messages,        \* the upload page: its message list
    loading,         \* the upload page: its `loading` flag
    uploads,         \* the upload page: the position of each upload handler
    now              \* the upload page: the value of Date.now()

vars == <<variant, request, pc, path, bodyReads, imageBytes, extracted,
          classifierInput, modRequest, ocrOutput, classifierOutput, verdict,
          calls, events, response, extraction,
          running, parked, delivered, overlapped,
          page, messages, loading, uploads, now>>

\* the state of two invocations sharing the module
pairVars == <<running, parked, delivered, overlapped>>
\* the state of the upload page
pageVars == <<page, messages, loading, uploads, now>>

----------------------------------------------------------------------------
(* Bounds of the model *)

\* longest conversation of a request
MaxMsgs == 2
\* total number of parts over the messages of a conversation
MaxParts == 2
\* longest ingredient list a classifier output carries
MaxIngredients == 1

----------------------------------------------------------------------------
(* The versions of the handler *)

Variants ==
    {"route", "part_001", "part_002", "part_003", "part_006", "part_007",
     "part_008", "part_009", "part_011"}

\* JavaScript's `undefined` (an absent field, an absent output_text)
Undefined == [t |-> "undefined"]
\* an external call that throws: a time-out or an error reported by the service
Failure == [t |-> "failure"]
\* a string literal of the source
Lit(s) == [t |-> "lit", s |-> s]
NoRequest == [kind |-> "none"]
NoCall == [t |-> "none"]
\* no parse step under way
NoExtraction == [stage |-> "none"]

----------------------------------------------------------------------------
(* Requests *)

\* a content-type header value, as the sequence of the pieces whose
\* concatenation it is; <<>> is the empty string a missing header becomes
\* (`req.headers.get("content-type") || ""`)
ContentTypes ==
    { <<>>,
      <<"application/json">>,
      <<"multipart/form-data", "; boundary=x">>,
      <<"Multipart/Form-Data", "; boundary=x">>,
      <<"text/plain; note=", "multipart/form-data">> }

Roles == {"user", "assistant"}

\* a text part carries a text (a sequence of characters); any other part is opaque
TextPart(t) == [type |-> "text", text |-> t]
FilePart == [type |-> "file"]
Parts == {TextPart(<<"a">>), TextPart(<<"b">>), FilePart}

RECURSIVE PartLists(_)
PartLists(n) ==
    IF n = 0 THEN {<<>>}
    ELSE LET shorter == PartLists(n - 1)
         IN  shorter \cup
             {Append(ps, p) : ps \in {q \in shorter : Len(q) = n - 1}, p \in Parts}

Message(r, ps) == [role |-> r, parts |-> ps]

\* conversations of at most n messages holding at most k parts in all
RECURSIVE Conversations(_, _)
Conversations(n, k) ==
    IF n = 0 THEN {<<>>}
    ELSE {<<>>} \cup
         UNION { { <<Message(r, ps)>> \o c : c \in Conversations(n - 1, k - Len(ps)) }
                 : r \in Roles, ps \in PartLists(k) }

AllConversations == Conversations(MaxMsgs, MaxParts)

\* a request body: a multipart form without the `image` field, or with an
\* image that sharp can or cannot decode, a JSON document { messages }, a
\* JSON document without `messages`, or bytes that are neither
Bodies ==
    {[kind |-> "form", hasImage |-> FALSE, decodable |-> FALSE]}
    \cup {[kind |-> "form", hasImage |-> TRUE, decodable |-> d] : d \in BOOLEAN}
    \cup {[kind |-> "messages", messages |-> c] : c \in AllConversations}
    \cup {[kind |-> "jsonOther"], [kind |-> "garbage"]}

Requests == {[kind |-> "request", contentType |-> ct, body |-> b] :
                ct \in ContentTypes, b \in Bodies}

----------------------------------------------------------------------------
(* Outputs of the external collaborators *)

\* a string returned by the OCR call: a core, with or without white space
\* around it.  Str("") is the empty string, a padded "" is white space only.
Str(c) == [t |-> "str", core |-> c, padded |-> FALSE]
Padded(c) == [t |-> "str", core |-> c, padded |-> TRUE]
OcrCores == {"", "UNREADABLE", "NOT_FOUND", "water, glycerin"}
OcrOutputs == {Undefined} \cup {Str(c) : c \in OcrCores} \cup {Padded(c) : c \in OcrCores}

\* String.prototype.trim
Trim(s) == [s EXCEPT !.padded = FALSE]
\* JavaScript truthiness of an optional string: neither undefined nor ""
Truthy(s) == s # Undefined /\ (s.core # "" \/ s.padded)

\* the statuses the classification prompt allows
Statuses == {"safe", "caution", "kid-sensitive", "harmful", "banned"}

\* an ingredient object of a classifier output; the status may be missing
Ingredient(st) == [name |-> "water", status |-> st, reason |-> "solvent"]
Ingredients == {Ingredient(Lit(st)) : st \in Statuses} \cup {Ingredient(Undefined)}

RECURSIVE IngredientLists(_)
IngredientLists(n) ==
    IF n = 0 THEN {<<>>}
    ELSE LET shorter == IngredientLists(n - 1)
         IN  shorter \cup
             {Append(l, i) : l \in {q \in shorter : Len(q) = n - 1}, i \in Ingredients}

\* JSON values a classifier output may denote
JNull == [t |-> "null"]
JNumber == [t |-> "number", n |-> Lit("7")]
JEmptyObject == [t |-> "object", ingredients |-> Undefined,
                 summary |-> Undefined, score |-> Undefined]
JRecord(l) == [t |-> "object", ingredients |-> [t |-> "array", items |-> l],
               summary |-> Lit("ok"), score |-> Lit("7")]
JsonValues == {JNull, JNumber, JEmptyObject} \cup {JRecord(l) : l \in IngredientLists(MaxIngredients)}

\* a non-empty output text of the classifier: the JSON text of a value,
\* bare, inside a ``` fence, after a sentence of prose, after prose and cut
\* before its closing braces, with a comma before a closing bracket, or
\* inside a fence with such a comma
Wraps == {"bare", "fenced", "prose", "truncated", "trailingComma", "fencedTrailingComma"}
JsonText(w, v) == [t |-> "text", wrap |-> w, value |-> v]
EmptyText == [t |-> "text", wrap |-> "empty", value |-> JNull]
\* a text of prose that holds no JSON at all
ProseOnlyText == [t |-> "text", wrap |-> "proseOnly", value |-> JNull]
ClassifierOutputs ==
    {Undefined, EmptyText, ProseOnlyText}
        \cup {JsonText(w, v) : w \in Wraps, v \in JsonValues}

\* the value JSON.parse returns for a text it accepts
ParseValue(text) == text.value
\* the text of the literal "{}"
EmptyObjectText == JsonText("bare", JEmptyObject)
\* `x || fallback` on an optional output text
OrElse(text, fallback) == IF text = Undefined \/ text = EmptyText THEN fallback ELSE text

\* a verdict of the moderation service
Verdicts == {[flagged |-> f, denialMessage |-> d] :
                f \in BOOLEAN, d \in {Undefined, Lit("blocked")}}

----------------------------------------------------------------------------
(* Responses *)

NoResponse == [kind |-> "none", status |-> 0, body |-> [none |-> Undefined]]
\* Response.json(body, { status })
JsonResponse(st, b) == [kind |-> "json", status |-> st, body |-> b]
\* new Response(JSON.stringify(body), { status }): the same text, no JSON content type
JsonTextResponse(st, b) == [kind |-> "jsonText", status |-> st, body |-> b]
\* new Response(text, { status })
PlainResponse(st, s) == [kind |-> "plain", status |-> st, body |-> [text |-> Lit(s)]]
\* createUIMessageStreamResponse / toUIMessageStreamResponse: a streamed body
StreamResponse == [kind |-> "stream", status |-> 200, body |-> [stream |-> Lit("events")]]
\* an exception that leaves POST: the framework answers 500
Fault == [kind |-> "fault", status |-> 500, body |-> [error |-> Lit("unhandled exception")]]

----------------------------------------------------------------------------
(* Dispatch *)

\* String.prototype.includes on a header given as its pieces
Includes(ct, needle) == \E i \in DOMAIN ct : ct[i] = needle

\* a variation: the header compared as a whole
IsMultipartExactly(ct) == ct = <<"multipart/form-data">>

IsMultipart(ct) == Includes(ct, "multipart/form-data")

\* req.formData() resolves on a multipart form and rejects on any other body
FormDataOk(body) == body.kind = "form"
\* req.json() resolves on a JSON document and rejects on any other body
JsonOk(body) == body.kind \in {"messages", "jsonOther"}

----------------------------------------------------------------------------
(* The image pipeline, version by version *)

\* the answer to a form without the `image` field
MissingFileResponse(v) ==
    CASE v = "route"    -> JsonResponse(400, [response |-> Lit("No image uploaded.")])
      [] v = "part_001" -> JsonTextResponse(400, [response |-> Lit("No image provided")])
      [] v = "part_002" -> JsonResponse(200, [response |-> Lit("No file uploaded.")])
      [] v = "part_003" -> JsonResponse(200, [response |-> Lit("No image found.")])
      [] v = "part_006" -> JsonResponse(200, [response |-> Lit("No image found.")])
      [] v = "part_007" -> JsonResponse(200, [response |-> Lit("No image uploaded.")])
      [] v = "part_008" -> JsonResponse(200, [response |-> Lit("No image uploaded.")])
      [] v = "part_009" -> JsonTextResponse(400, [error |-> Lit("No image uploaded.")])
      [] v = "part_011" -> JsonResponse(200, [response |-> Lit("No image found.")])

\* the versions that run the image through sharp before the OCR call
UsesSharp(v) == v \in {"route", "part_001"}

\* the versions whose image branch sits in a try/catch
CatchesImageErrors(v) == v = "part_009"
ImageErrorResponse ==
    JsonTextResponse(500, [error |-> Lit("Server error processing image.")])

\* an exception raised while the image branch runs
ImageFailure(v) == IF CatchesImageErrors(v) THEN ImageErrorResponse ELSE Fault

\* the string that stands in for an absent or empty OCR output
OcrDefault(v) ==
    CASE v \in {"route", "part_009"}                -> Str("UNREADABLE")
      [] v \in {"part_007", "part_008"}             -> Str("NOT_FOUND")
      [] v = "part_001"                             -> Str("")
      [] v = "part_002"                             -> Str("Could not extract ingredients.")
      [] v \in {"part_003", "part_006", "part_011"} -> Str("No ingredients found.")

\* the versions that trim the OCR output
TrimsOcr(v) == v \in {"route", "part_001", "part_007", "part_008", "part_009"}

\* the handler's `extracted`, from the output of the OCR call
Extracted(v, out) ==
    LET s == IF out = Undefined THEN Str("")
             ELSE IF TrimsOcr(v) THEN Trim(out) ELSE out
    IN  IF Truthy(s) THEN s ELSE OcrDefault(v)

\* the test that ends the pipeline before the classification call
SentinelGuard(v, e) ==
    CASE v \in {"part_007", "part_008"} -> e = Str("NOT_FOUND")
      [] OTHER                          -> FALSE

\* the answer returned by that test (the source prefixes a warning sign)
CouldNotReadResponse(v) ==
    CASE v = "part_007" ->
            JsonResponse(200, [response |-> Lit("Could not detect ingredients.")])
      [] OTHER ->
            JsonResponse(200, [response |->
                                 Lit("Could not detect ingredients. Try another image.")])

\* what the handler does with the classifier's output:
\* "json" parses it and returns the value re-serialised,
\* "table" parses it and renders a table, "plain" returns the text as it is
Pipeline(v) ==
    CASE v \in {"route", "part_001"}    -> "json"
      [] v \in {"part_007", "part_008"} -> "table"
      [] OTHER                          -> "plain"

\* JSON.stringify(value, null, 2)
Stringify(v) == JsonText("pretty", v)

\* the text handed to JSON.parse
ParseInput(v, out) ==
    IF v = "part_001" THEN OrElse(out, EmptyText) ELSE OrElse(out, EmptyObjectText)

\* JSON.parse accepts the bare or indented JSON text of a value
Parses(text) == text.wrap \in {"bare", "pretty"}

\* the record that replaces an output JSON.parse rejects
FallbackRecord(v, out, e) ==
    IF v = "part_001"
    THEN [t |-> "object", extracted |-> e,
          error |-> Lit("Could not parse structured response")]
    ELSE [t |-> "object", ingredients |-> [t |-> "array", items |-> <<>>],
          score |-> Lit("5"), summary |-> Lit("Could not parse output JSON."),
          raw |-> out]

\* `parsed` of the "json" pipeline
Parsed(v, out, e) ==
    IF Parses(ParseInput(v, out)) THEN ParseValue(ParseInput(v, out))
    ELSE FallbackRecord(v, out, e)

JsonPipelineResponse(v, out, e) ==
    IF v = "part_001"
    THEN JsonTextResponse(200, [response |-> Stringify(Parsed(v, out, e)),
                                raw |-> Parsed(v, out, e)])
    ELSE JsonResponse(200, [response |-> Stringify(Parsed(v, out, e))])

\* the answer of the "table" pipeline to an output JSON.parse rejects
\* (the source prefixes a warning sign)
CouldNotEvaluateResponse(v) ==
    CASE v = "part_007" ->
            JsonResponse(200, [response |->
                                 Lit("Safety evaluation failed. Try another image.")])
      [] OTHER ->
            JsonResponse(200, [response |->
                                 Lit("Could not format safety results. Try another image.")])

\* the marker of a status (the source uses the emoji named here)
Marker(st) ==
    CASE st = Lit("safe")          -> "green circle"
      [] st = Lit("caution")       -> "yellow circle"
      [] st = Lit("kid-sensitive") -> "baby"
      [] st = Lit("harmful")       -> "red circle"
      [] OTHER                     -> "no entry"

\* `parsed.ingredients.map(...)` throws a TypeError when parsed is null, when
\* it has no `ingredients`, or when an item has no `status` to upper-case
RenderThrows(value) ==
    \/ value.t # "object"
    \/ value.ingredients = Undefined
    \/ \E i \in DOMAIN value.ingredients.items :
          value.ingredients.items[i].status = Undefined

Row(i) == [name |-> i.name, marker |-> Marker(i.status),
           status |-> [t |-> "upper", of |-> i.status], reason |-> i.reason]

Rows(value) == [i \in DOMAIN value.ingredients.items |-> Row(value.ingredients.items[i])]

TablePipelineResponse(v, out, e) ==
    LET text == ParseInput(v, out)
    IN  IF ~Parses(text) THEN CouldNotEvaluateResponse(v)
        ELSE IF RenderThrows(ParseValue(text)) THEN Fault
        ELSE JsonResponse(200,
                [response |-> [t |-> "report", extracted |-> e,
                               rows |-> Rows(ParseValue(text)),
                               summary |-> ParseValue(text).summary,
                               score |-> ParseValue(text).score]])

\* the string that stands in for an absent or empty analysis
AnalysisDefault(v) ==
    CASE v = "part_006" -> Lit("Could not analyze.")
      [] v = "part_009" -> Lit("")
      [] OTHER          -> Lit("Could not analyze ingredients.")

\* beautifyMarkdown of part_006: a re-spacing of the text
Beautify(v, x) == IF v = "part_006" THEN [t |-> "beautified", of |-> x] ELSE x

PlainPipelineResponse(v, out, x) ==
    LET analysis == Beautify(v, OrElse(out, AnalysisDefault(v)))
        e == Beautify(v, x)
    IN  IF v = "part_009"
        THEN JsonTextResponse(200,
                [extracted |-> e, analysis |-> analysis,
                 response |-> [t |-> "concat", extracted |-> e, analysis |-> analysis]])
        ELSE JsonResponse(200,
                [response |-> [t |-> "concat", extracted |-> e, analysis |-> analysis]])

\* the response of the image branch once the classification call has returned
AnalysisResponse(v, out, e) ==
    CASE Pipeline(v) = "json"  -> JsonPipelineResponse(v, out, e)
      [] Pipeline(v) = "table" -> TablePipelineResponse(v, out, e)
      [] OTHER                 -> PlainPipelineResponse(v, out, e)

----------------------------------------------------------------------------
(* The text path, version by version *)

\* messages.filter((m) => m.role === "user")
UserMessages(msgs) == SelectSeq(msgs, LAMBDA m : m.role = "user")
\* whether .pop() of that list finds a message
HasLatest(msgs) == UserMessages(msgs) # <<>>
Latest(msgs) == UserMessages(msgs)[Len(UserMessages(msgs))]

\* parts.filter((p) => p.type === "text").map((p) => p.text)
TextsOf(parts) ==
    LET texts == SelectSeq(parts, LAMBDA p : p.type = "text")
    IN  [i \in DOMAIN texts |-> texts[i].text]

\* Array.prototype.join: the elements in order, sep between two neighbours
RECURSIVE Join(_, _)
Join(texts, sep) ==
    IF texts = <<>> THEN <<>>
    ELSE IF Len(texts) = 1 THEN texts[1]
    ELSE texts[1] \o sep \o Join(Tail(texts), sep)

\* the argument of .join(...)
JoinSeparator(v) == IF v = "part_001" THEN <<" ">> ELSE <<>>

\* the text handed to isContentFlagged
ModerationText(v, m) == Join(TextsOf(m.parts), JoinSeparator(v))

\* the versions that call isContentFlagged only on a non-empty text
SkipsEmptyText(v) == v = "part_002"
\* whether the handler consults the moderation service on a conversation
Moderates(v, msgs) ==
    /\ HasLatest(msgs)
    /\ ~(SkipsEmptyText(v) /\ ModerationText(v, Latest(msgs)) = << >>)

\* the versions whose text branch is the echo placeholder
EchoesChat(v) == v = "part_009"
EchoResponse ==
    JsonTextResponse(200, [echo |-> Lit("chat mode not implemented in this example")])
\* the answer to a body req.json() rejects
BadJsonResponse(v) ==
    IF v = "part_009" THEN JsonTextResponse(400, [error |-> Lit("Bad request")])
    ELSE Fault

\* the versions that answer a flagged message with a plain response
BlocksWithPlainResponse(v) == v = "part_006"
BlockedPlainResponse == PlainResponse(400, "Message blocked due to safety policies.")

\* the identifier of the short-circuit text segment
BlockedId(v) ==
    CASE v = "part_001" -> Lit("block")
      [] v = "part_002" -> Lit("moderation-warning")
      [] OTHER          -> Lit("blocked")

\* the delta of the short-circuit text segment
DenialText(v, moderation) ==
    IF v = "part_007" THEN moderation.denialMessage
    ELSE IF moderation.denialMessage # Undefined THEN moderation.denialMessage
    ELSE CASE v = "part_001" -> Lit("Message blocked")
           [] v = "part_002" -> Lit("Your message violates our guidelines.")
           [] v = "part_008" -> Lit("Your message violated policy.")
           [] OTHER          -> Lit("Message blocked.")

Start == [type |-> "start"]
Finish == [type |-> "finish"]
TextStart(id) == [type |-> "text-start", id |-> id]
TextDelta(id, d) == [type |-> "text-delta", id |-> id, delta |-> d]
TextEnd(id) == [type |-> "text-end", id |-> id]

\* a variation: the short-circuit stream without its text-end
BlockedEventsUnclosed(v, moderation) ==
    << Start,
       TextStart(BlockedId(v)),
       TextDelta(BlockedId(v), DenialText(v, moderation)),
       Finish >>

\* a variation: the short-circuit stream with finish written before text-end
BlockedEventsFinishEarly(v, moderation) ==
    << Start,
       TextStart(BlockedId(v)),
       TextDelta(BlockedId(v), DenialText(v, moderation)),
       Finish,
       TextEnd(BlockedId(v)) >>

\* the writes of the execute callback of the short-circuit stream
BlockedEvents(v, moderation) ==
    << Start,
       TextStart(BlockedId(v)),
       TextDelta(BlockedId(v), DenialText(v, moderation)),
       TextEnd(BlockedId(v)),
       Finish >>

\* the step bound handed to streamText (stepCountIs(n), maxSteps: n)
StepLimit(v) ==
    CASE v \in {"part_006", "part_011"} -> 5
      [] v = "part_009"                 -> 0
      [] OTHER                          -> 10

\* a variation: the step count compared with > instead of >=
StopWhenLate(v, steps) == steps > StepLimit(v)

\* a variation: a bound that lets the loop run one step further
StopWhenOneMore(v, steps) == steps >= StepLimit(v) + 1

\* stopWhen: stepCountIs(n) stops the loop once n steps have run
StopWhen(v, steps) == steps >= StepLimit(v)

\* what one answer of the inference service holds: a final text, a text
\* and a tool request, or a tool request alone
RoundKinds == {"final", "toolText", "toolOnly"}
HasText(kind) == kind \in {"final", "toolText"}
RequestsTool(kind) == kind \in {"toolText", "toolOnly"}

\* the identifier of the text segment of step k
StepTextId(k) == [t |-> "step", n |-> k]

\* the events of step k
StepEvents(k, kind) ==
    << [type |-> "start-step"] >>
    \o (IF HasText(kind)
        THEN << TextStart(StepTextId(k)),
                TextDelta(StepTextId(k), [t |-> "model text", n |-> k]),
                TextEnd(StepTextId(k)) >>
        ELSE << >>)
    \o (IF RequestsTool(kind)
        THEN << [type |-> "tool-input-available"], [type |-> "tool-output-available"] >>
        ELSE << >>)
    \o << [type |-> "finish-step"] >>

\* the loop goes on after a step that requested a tool, until stopWhen holds
LoopEnds(v, kind, steps) == ~RequestsTool(kind) \/ StopWhen(v, steps)

----------------------------------------------------------------------------
(* The handler *)

NoCalls == [ocr |-> 0, classify |-> 0, moderation |-> 0, inference |-> 0, tool |-> 0]

\* no second invocation is looked at
NoInvocation == [id |-> 0]
PairIdle ==
    /\ running = NoInvocation
    /\ parked = NoInvocation
    /\ delivered = << >>
    /\ overlapped = FALSE

\* no page is looked at
PageIdle ==
    /\ page = "none"
    /\ messages = << >>
    /\ loading = FALSE
    /\ uploads = << >>
    /\ now = 0

Init ==
    /\ variant \in Variants
    /\ request \in Requests
    /\ pc = "idle"
    /\ path = "none"
    /\ bodyReads = << >>
    /\ imageBytes = "none"
    /\ extracted = NoCall
    /\ classifierInput = NoCall
    /\ modRequest = NoCall
    /\ ocrOutput = NoCall
    /\ classifierOutput = NoCall
    /\ verdict = NoCall
    /\ calls = NoCalls
    /\ events = << >>
    /\ response = NoResponse
    /\ extraction = NoExtraction
    /\ PairIdle
    /\ PageIdle

\* POST returns resp: its frame is gone
Return(resp) ==
    /\ pc' = "done"
    /\ response' = resp
    /\ request' = NoRequest
    /\ extracted' = NoCall
    /\ classifierInput' = NoCall
    /\ modRequest' = NoCall

\* POST returns the response of streamText; the loop runs on behind the stream
StartStream ==
    /\ pc' = "loop"
    /\ response' = StreamResponse
    /\ events' = << Start >>
    /\ request' = NoRequest
    /\ modRequest' = NoCall
    /\ UNCHANGED <<imageBytes, extracted, classifierInput, calls>>

\* whether sharp(...).toBuffer() resolves on the uploaded bytes
SharpResolves(body) == body.kind = "form" /\ body.hasImage /\ body.decodable

\* a variation: the image branch without the try/catch around sharp
ImageEntrySharpThrows(sharpOk) ==
    /\ path' = "image"
    /\ bodyReads' = Append(bodyReads, "formData")
    /\ UNCHANGED <<ocrOutput, classifierOutput, verdict>>
    /\ IF ~FormDataOk(request.body)
       THEN /\ Return(ImageFailure(variant))
            /\ UNCHANGED <<imageBytes, calls, events>>
       ELSE IF ~request.body.hasImage
       THEN /\ Return(MissingFileResponse(variant))
            /\ UNCHANGED <<imageBytes, calls, events>>
       ELSE IF UsesSharp(variant) /\ ~sharpOk
       THEN /\ Return(ImageFailure(variant))
            /\ UNCHANGED <<imageBytes, calls, events>>
       ELSE /\ imageBytes' = IF UsesSharp(variant) THEN "processed" ELSE "original"
            /\ calls' = [calls EXCEPT !.ocr = @ + 1]
            /\ pc' = "ocr"
            /\ UNCHANGED <<request, extracted, classifierInput, modRequest,
                           events, response>>

\* the image branch up to the OCR call
ImageEntry(sharpOk) ==
    /\ path' = "image"
    /\ bodyReads' = Append(bodyReads, "formData")
    /\ UNCHANGED <<ocrOutput, classifierOutput, verdict>>
    /\ IF ~FormDataOk(request.body)
       THEN /\ Return(ImageFailure(variant))
            /\ UNCHANGED <<imageBytes, calls, events>>
       ELSE IF ~request.body.hasImage
       THEN /\ Return(MissingFileResponse(variant))
            /\ UNCHANGED <<imageBytes, calls, events>>
       ELSE /\ imageBytes' = IF UsesSharp(variant) /\ sharpOk THEN "processed"
                             ELSE "original"
            /\ calls' = [calls EXCEPT !.ocr = @ + 1]
            /\ pc' = "ocr"
            /\ UNCHANGED <<request, extracted, classifierInput, modRequest,
                           events, response>>

\* a variation: the text branch with isContentFlagged called but not awaited
TextEntryNoAwait ==
    /\ path' = "text"
    /\ bodyReads' = Append(bodyReads, "json")
    /\ UNCHANGED <<ocrOutput, classifierOutput, verdict>>
    /\ IF ~JsonOk(request.body)
       THEN /\ Return(BadJsonResponse(variant))
            /\ UNCHANGED <<imageBytes, calls, events>>
       ELSE IF EchoesChat(variant)
       THEN /\ Return(EchoResponse)
            /\ UNCHANGED <<imageBytes, calls, events>>
       ELSE IF request.body.kind = "jsonOther"
       THEN /\ Return(Fault)
            /\ UNCHANGED <<imageBytes, calls, events>>
       ELSE IF Moderates(variant, request.body.messages)
       THEN /\ modRequest' = [t |-> "text",
                              chars |-> ModerationText(variant,
                                                       Latest(request.body.messages))]
            /\ calls' = [calls EXCEPT !.moderation = @ + 1]
            /\ pc' = "loop"
            /\ response' = StreamResponse
            /\ events' = << Start >>
            /\ UNCHANGED <<request, imageBytes, extracted, classifierInput>>
       ELSE StartStream

\* a variation: the text branch that looks at the body as text before it
\* parses it as JSON
TextEntryProbesBody ==
    /\ path' = "text"
    /\ bodyReads' = bodyReads \o << "text", "json" >>
    /\ UNCHANGED <<ocrOutput, classifierOutput, verdict>>
    /\ IF ~JsonOk(request.body)
       THEN /\ Return(BadJsonResponse(variant))
            /\ UNCHANGED <<imageBytes, calls, events>>
       ELSE IF EchoesChat(variant)
       THEN /\ Return(EchoResponse)
            /\ UNCHANGED <<imageBytes, calls, events>>
       ELSE IF request.body.kind = "jsonOther"
       THEN /\ Return(Fault)
            /\ UNCHANGED <<imageBytes, calls, events>>
       ELSE IF Moderates(variant, request.body.messages)
       THEN /\ modRequest' = [t |-> "text",
                              chars |-> ModerationText(variant,
                                                       Latest(request.body.messages))]
            /\ calls' = [calls EXCEPT !.moderation = @ + 1]
            /\ pc' = "moderation"
            /\ UNCHANGED <<request, imageBytes, extracted, classifierInput,
                           events, response>>
       ELSE StartStream

\* the text branch up to the moderation call
TextEntry ==
    /\ path' = "text"
    /\ bodyReads' = Append(bodyReads, "json")
    /\ UNCHANGED <<ocrOutput, classifierOutput, verdict>>
    /\ IF ~JsonOk(request.body)
       THEN /\ Return(BadJsonResponse(variant))
            /\ UNCHANGED <<imageBytes, calls, events>>
       ELSE IF EchoesChat(variant)
       THEN /\ Return(EchoResponse)
            /\ UNCHANGED <<imageBytes, calls, events>>
       ELSE IF request.body.kind = "jsonOther"
       THEN /\ Return(Fault)
            /\ UNCHANGED <<imageBytes, calls, events>>
       ELSE IF Moderates(variant, request.body.messages)
       THEN /\ modRequest' = [t |-> "text",
                              chars |-> ModerationText(variant,
                                                       Latest(request.body.messages))]
            /\ calls' = [calls EXCEPT !.moderation = @ + 1]
            /\ pc' = "moderation"
            /\ UNCHANGED <<request, imageBytes, extracted, classifierInput,
                           events, response>>
       ELSE StartStream

\* POST from its entry to its first external call
Dispatch ==
    /\ pc = "idle"
    /\ IF IsMultipart(request.contentType)
       THEN ImageEntry(SharpResolves(request.body))
       ELSE TextEntry
    /\ UNCHANGED <<variant, extraction, pairVars, pageVars>>

\* a variation: an OCR call that is made a second time when it fails
OcrReturnsRetries ==
    /\ pc = "ocr"
    /\ \E out \in OcrOutputs \cup {Failure} :
         /\ ocrOutput' = out
         /\ IF out = Failure /\ calls.ocr < 2
            THEN /\ calls' = [calls EXCEPT !.ocr = @ + 1]
                 /\ UNCHANGED <<request, pc, extracted, classifierInput, modRequest,
                                response>>
            ELSE IF out = Failure
            THEN /\ Return(ImageFailure(variant))
                 /\ UNCHANGED calls
            ELSE IF SentinelGuard(variant, Extracted(variant, out))
            THEN /\ Return(CouldNotReadResponse(variant))
                 /\ UNCHANGED calls
            ELSE /\ extracted' = Extracted(variant, out)
                 /\ classifierInput' = Extracted(variant, out)
                 /\ calls' = [calls EXCEPT !.classify = @ + 1]
                 /\ pc' = "analysis"
                 /\ UNCHANGED <<request, modRequest, response>>
    /\ UNCHANGED <<variant, path, bodyReads, imageBytes, events,
                   classifierOutput, verdict, extraction, pairVars, pageVars>>

\* the OCR call returns: the guard, then the classification call
OcrReturns ==
    /\ pc = "ocr"
    /\ \E out \in OcrOutputs \cup {Failure} :
         /\ ocrOutput' = out
         /\ IF out = Failure
            THEN /\ Return(ImageFailure(variant))
                 /\ UNCHANGED calls
            ELSE IF SentinelGuard(variant, Extracted(variant, out))
            THEN /\ Return(CouldNotReadResponse(variant))
                 /\ UNCHANGED calls
            ELSE /\ extracted' = Extracted(variant, out)
                 /\ classifierInput' = Extracted(variant, out)
                 /\ calls' = [calls EXCEPT !.classify = @ + 1]
                 /\ pc' = "analysis"
                 /\ UNCHANGED <<request, modRequest, response>>
    /\ UNCHANGED <<variant, path, bodyReads, imageBytes, events,
                   classifierOutput, verdict, extraction, pairVars, pageVars>>

\* a variation: an image branch that does not return after its response is
\* built and runs on into the moderation call of the text branch
AnalysisReturnsFallsThrough ==
    /\ pc = "analysis"
    /\ \E out \in ClassifierOutputs \cup {Failure} :
         /\ classifierOutput' = out
         /\ modRequest' = [t |-> "text", chars |-> << >>]
         /\ calls' = [calls EXCEPT !.moderation = @ + 1]
         /\ pc' = "moderation"
    /\ UNCHANGED <<variant, request, path, bodyReads, imageBytes, extracted,
                   classifierInput, events, response, ocrOutput, verdict,
                   extraction, pairVars, pageVars>>

\* the classification call returns: parse, render, respond
AnalysisReturns ==
    /\ pc = "analysis"
    /\ \E out \in ClassifierOutputs \cup {Failure} :
         /\ classifierOutput' = out
         /\ IF out = Failure
            THEN Return(ImageFailure(variant))
            ELSE Return(AnalysisResponse(variant, out, extracted))
    /\ UNCHANGED <<variant, path, bodyReads, imageBytes, calls, events,
                   ocrOutput, verdict, extraction, pairVars, pageVars>>

\* a variation: a handler that catches the rejection of isContentFlagged
\* and goes on as if the message were not flagged
ModerationReturnsFailOpen ==
    /\ pc = "moderation"
    /\ \E moderation \in Verdicts \cup {Failure} :
         /\ verdict' = moderation
         /\ IF moderation # Failure /\ moderation.flagged
            THEN IF BlocksWithPlainResponse(variant)
                 THEN /\ Return(BlockedPlainResponse)
                      /\ UNCHANGED <<imageBytes, calls, events>>
                 ELSE /\ Return(StreamResponse)
                      /\ events' = BlockedEvents(variant, moderation)
                      /\ UNCHANGED <<imageBytes, calls>>
            ELSE StartStream
    /\ UNCHANGED <<variant, path, bodyReads, ocrOutput, classifierOutput,
                   extraction, pairVars, pageVars>>

\* isContentFlagged returns: the short-circuit stream, or streamText
ModerationReturns ==
    /\ pc = "moderation"
    /\ \E moderation \in Verdicts \cup {Failure} :
         /\ verdict' = moderation
         /\ IF moderation = Failure
            THEN /\ Return(Fault)
                 /\ UNCHANGED <<imageBytes, calls, events>>
            ELSE IF moderation.flagged /\ BlocksWithPlainResponse(variant)
            THEN /\ Return(BlockedPlainResponse)
                 /\ UNCHANGED <<imageBytes, calls, events>>
            ELSE IF moderation.flagged
            THEN /\ Return(StreamResponse)
                 /\ events' = BlockedEvents(variant, moderation)
                 /\ UNCHANGED <<imageBytes, calls>>
            ELSE StartStream
    /\ UNCHANGED <<variant, path, bodyReads, ocrOutput, classifierOutput,
                   extraction, pairVars, pageVars>>

\* one step of streamText: a call to the inference service, the events of
\* its answer, the tools it asks for, and `finish` when the loop ends
InferenceRound ==
    /\ pc = "loop"
    /\ \E kind \in RoundKinds :
         LET steps == calls.inference + 1
         IN  /\ calls' = [calls EXCEPT !.inference = steps,
                                       !.tool = IF RequestsTool(kind) THEN @ + 1 ELSE @]
             /\ IF LoopEnds(variant, kind, steps)
                THEN /\ events' = events \o StepEvents(steps, kind) \o << Finish >>
                     /\ pc' = "done"
                ELSE /\ events' = events \o StepEvents(steps, kind)
                     /\ pc' = "loop"
    /\ UNCHANGED <<variant, request, path, bodyReads, imageBytes, extracted,
                   classifierInput, modRequest, ocrOutput, classifierOutput,
                   verdict, response, extraction, pairVars, pageVars>>

Next ==
    \/ Dispatch
    \/ OcrReturns
    \/ AnalysisReturns
    \/ ModerationReturns
    \/ InferenceRound

Spec == Init /\ [][Next]_vars

\* streamText drives its loop by itself: a step that can run does run
FairSpec == Spec /\ WF_vars(InferenceRound)

----------------------------------------------------------------------------
(* The parse step taken alone: JSON texts as token sequences *)

\* tokens of a text: punctuation, string and number literals, a word of
\* prose, a code fence marker
P(c) == [t |-> "p", v |-> c]
S(x) == [t |-> "str", v |-> x]
N(n) == [t |-> "num", v |-> n]
Word == [t |-> "word", v |-> "Sure! Here you go:"]
Fence == [t |-> "fence", v |-> "~~~"]
IsP(tok, c) == tok.t = "p" /\ tok.v = c

\* most ingredients of an analysis result
MaxResultIngredients == 2

\* the record the analysis prompt asks for
Classifications == {"SAFE", "IRRITANT"}
AnalysisIngredients ==
    {[name |-> "water", classification |-> c, reason |-> "solvent"] : c \in Classifications}
RECURSIVE AnalysisIngredientLists(_)
AnalysisIngredientLists(n) ==
    IF n = 0 THEN {<<>>}
    ELSE LET shorter == AnalysisIngredientLists(n - 1)
         IN  shorter \cup
             {Append(l, i) : l \in {q \in shorter : Len(q) = n - 1},
                             i \in AnalysisIngredients}
AnalysisResults ==
    {[ingredients |-> l, score |-> sc, summary |-> sm] :
        l \in AnalysisIngredientLists(MaxResultIngredients), sc \in {0, 7}, sm \in {"", "ok"}}

\* the JSON text of an ingredient, of a list of them, of a result
SerializeIngredient(i) ==
    << P("{"), S("name"), P(":"), S(i.name), P(","),
       S("classification"), P(":"), S(i.classification), P(","),
       S("reason"), P(":"), S(i.reason), P("}") >>
RECURSIVE SerializeList(_)
SerializeList(items) ==
    IF items = << >> THEN << >>
    ELSE IF Len(items) = 1 THEN SerializeIngredient(items[1])
    ELSE SerializeIngredient(items[1]) \o << P(",") >> \o SerializeList(Tail(items))
SerializeResult(r) ==
    << P("{"), S("ingredients"), P(":"), P("[") >> \o SerializeList(r.ingredients)
    \o << P("]"), P(","), S("score"), P(":"), N(r.score), P(","),
          S("summary"), P(":"), S(r.summary), P("}") >>

\* the ways a model words its answer around the JSON text
TextWraps == {"bare", "fenced", "prose", "proseAfter", "truncated", "trailingComma",
              "fencedTrailingComma", "proseOnly", "empty"}
WithTrailingComma(toks) == SubSeq(toks, 1, Len(toks) - 1) \o << P(","), P("}") >>
WrapText(w, toks) ==
    CASE w = "bare"                -> toks
      [] w = "fenced"              -> << Fence >> \o toks \o << Fence >>
      [] w = "prose"               -> << Word >> \o toks
      [] w = "proseAfter"          -> toks \o << Word >>
      [] w = "truncated"           -> << Word >> \o SubSeq(toks, 1, Len(toks) - 1)
      [] w = "trailingComma"       -> WithTrailingComma(toks)
      [] w = "fencedTrailingComma" -> << Fence >> \o WithTrailingComma(toks) \o << Fence >>
      [] w = "proseOnly"           -> << Word >>
      [] w = "empty"               -> << >>

\* JSON.parse as a recursive descent over the tokens: the result of reading
\* one value is [ok, val, rest]
ParseFail == [ok |-> FALSE, val |-> << >>, rest |-> << >>]
ParseOk(v, rest) == [ok |-> TRUE, val |-> v, rest |-> rest]

\* the object of a list of <<key, value>> members: a later key wins
ObjectOf(members) ==
    [k \in {members[i][1] : i \in DOMAIN members} |->
        members[CHOOSE i \in DOMAIN members :
                    /\ members[i][1] = k
                    /\ \A j \in DOMAIN members : j > i => members[j][1] # k][2]]

RECURSIVE ParseJsonValue(_), ParseElements(_, _), ParseMembers(_, _)

\* a variation: an array reader that keeps the last element only
ParseElementsKeepsLast(toks, acc) ==
    IF toks = << >> THEN ParseFail
    ELSE IF IsP(Head(toks), "]")
    THEN IF acc = << >> THEN ParseOk(<< >>, Tail(toks)) ELSE ParseFail
    ELSE LET r == ParseJsonValue(toks)
         IN  IF ~r.ok \/ r.rest = << >> THEN ParseFail
             ELSE IF IsP(Head(r.rest), ",")
             THEN ParseElements(Tail(r.rest), << r.val >>)
             ELSE IF IsP(Head(r.rest), "]")
             THEN ParseOk(<< r.val >>, Tail(r.rest))
             ELSE ParseFail

ParseJsonValue(toks) ==
    IF toks = << >> THEN ParseFail
    ELSE CASE Head(toks).t \in {"str", "num"} -> ParseOk(Head(toks).v, Tail(toks))
           [] IsP(Head(toks), "[")            -> ParseElements(Tail(toks), << >>)
           [] IsP(Head(toks), "{")            -> ParseMembers(Tail(toks), << >>)
           [] OTHER                           -> ParseFail

\* after "[" or after a comma: acc holds the elements read so far
ParseElements(toks, acc) ==
    IF toks = << >> THEN ParseFail
    ELSE IF IsP(Head(toks), "]")
    THEN IF acc = << >> THEN ParseOk(<< >>, Tail(toks)) ELSE ParseFail
    ELSE LET r == ParseJsonValue(toks)
         IN  IF ~r.ok \/ r.rest = << >> THEN ParseFail
             ELSE IF IsP(Head(r.rest), ",")
             THEN ParseElements(Tail(r.rest), Append(acc, r.val))
             ELSE IF IsP(Head(r.rest), "]")
             THEN ParseOk(Append(acc, r.val), Tail(r.rest))
             ELSE ParseFail

\* after "{" or after a comma: acc holds the members read so far
ParseMembers(toks, acc) ==
    IF toks = << >> THEN ParseFail
    ELSE IF IsP(Head(toks), "}")
    THEN IF acc = << >> THEN ParseOk(ObjectOf(<< >>), Tail(toks)) ELSE ParseFail
    ELSE IF Len(toks) < 3 \/ Head(toks).t # "str" \/ ~IsP(toks[2], ":") THEN ParseFail
    ELSE LET r == ParseJsonValue(SubSeq(toks, 3, Len(toks)))
             members == Append(acc, << Head(toks).v, r.val >>)
         IN  IF ~r.ok \/ r.rest = << >> THEN ParseFail
             ELSE IF IsP(Head(r.rest), ",") THEN ParseMembers(Tail(r.rest), members)
             ELSE IF IsP(Head(r.rest), "}") THEN ParseOk(ObjectOf(members), Tail(r.rest))
             ELSE ParseFail

\* JSON.parse throws unless the whole text is one value
JsonParseThrows(toks) == ~ParseJsonValue(toks).ok \/ ParseJsonValue(toks).rest # << >>
JsonParse(toks) == ParseJsonValue(toks).val

\* output_text || "{}"
OrEmptyObject(toks) == IF toks = << >> THEN << P("{"), P("}") >> ELSE toks

\* the record of the catch branch
ParseFallback(toks) ==
    [ingredients |-> << >>, score |-> 5,
     summary |-> "Could not parse output JSON.", raw |-> toks]

\* try { parsed = JSON.parse(output_text || "{}") } catch { parsed = {...} }
ExtractParsed(toks) ==
    IF JsonParseThrows(OrEmptyObject(toks)) THEN ParseFallback(toks)
    ELSE JsonParse(OrEmptyObject(toks))

\* the handler is not running while the parse step is looked at alone
HandlerIdle ==
    /\ variant = "route"
    /\ request = NoRequest
    /\ pc = "idle"
    /\ path = "none"
    /\ bodyReads = << >>
    /\ imageBytes = "none"
    /\ extracted = NoCall
    /\ classifierInput = NoCall
    /\ modRequest = NoCall
    /\ ocrOutput = NoCall
    /\ classifierOutput = NoCall
    /\ verdict = NoCall
    /\ calls = NoCalls
    /\ events = << >>
    /\ response = NoResponse

handlerVars == <<variant, request, pc, path, bodyReads, imageBytes, extracted,
                 classifierInput, modRequest, ocrOutput, classifierOutput, verdict,
                 calls, events, response>>

ExtractionInit ==
    /\ HandlerIdle
    /\ PairIdle
    /\ PageIdle
    /\ extraction \in {[stage |-> "input", original |-> r] : r \in AnalysisResults}

\* the classifier answers: the JSON text of the result, worded in some way
ClassifierAnswers ==
    /\ extraction.stage = "input"
    /\ \E w \in TextWraps :
         extraction' = [stage |-> "text", original |-> extraction.original, wrap |-> w,
                        outputText |-> WrapText(w, SerializeResult(extraction.original))]
    /\ UNCHANGED <<handlerVars, pairVars, pageVars>>

\* the try/catch around JSON.parse
ParseStep ==
    /\ extraction.stage = "text"
    /\ extraction' = [stage |-> "parsed", original |-> extraction.original,
                      wrap |-> extraction.wrap, outputText |-> extraction.outputText,
                      caught |-> JsonParseThrows(OrEmptyObject(extraction.outputText)),
                      parsed |-> ExtractParsed(extraction.outputText)]
    /\ UNCHANGED <<handlerVars, pairVars, pageVars>>

ExtractionNext ==
    \/ ClassifierAnswers
    \/ ParseStep

ExtractionSpec == ExtractionInit /\ [][ExtractionNext]_vars

----------------------------------------------------------------------------
(* Properties of the response stream *)

\* the versions whose text branch answers with a UI message stream on both
\* of its ways out (createUIMessageStream, toUIMessageStreamResponse)
UIStreamVariants == {"route", "part_001", "part_007", "part_008"}

CountOf(ev, ty) == Cardinality({i \in DOMAIN ev : ev[i].type = ty})

\* text-start at i is closed by exactly one later text-end of its identifier,
\* with nothing but deltas of that identifier in between
ClosedOnce(ev, i) ==
    /\ Cardinality({j \in DOMAIN ev : ev[j].type = "text-end" /\ ev[j].id = ev[i].id}) = 1
    /\ \E j \in DOMAIN ev :
         /\ j > i
         /\ ev[j].type = "text-end"
         /\ ev[j].id = ev[i].id
         /\ \A k \in (i + 1)..(j - 1) :
              ev[k].type = "text-delta" /\ ev[k].id = ev[i].id

WellFormedTurn(ev) ==
    /\ ev # << >>
    /\ ev[1].type = "start"
    /\ CountOf(ev, "start") = 1
    /\ CountOf(ev, "finish") = 1
    /\ \A i \in DOMAIN ev : ev[i].type = "text-start" => ClosedOnce(ev, i)
    /\ \A i, j \in DOMAIN ev :
         ev[i].type = "text-end" /\ ev[j].type = "finish" => i < j

\* the turn of a text-path request is over and was answered
TurnAnswered ==
    /\ path = "text"
    /\ pc = "done"
    /\ verdict # Failure
    /\ response # Fault

\* C1: in the handler of route.ts (and the versions that stream the same
\* way), a text-path turn that is over, flagged or not, was answered by a
\* stream whose events begin with the only `start`, hold exactly one
\* `finish`, close every text-start of identifier X by exactly one later
\* text-end of X with only deltas of X in between, and put `finish` after
\* every text-end.
C1_StreamWellFormed ==
    (variant \in UIStreamVariants /\ TurnAnswered)
        => (response = StreamResponse /\ WellFormedTurn(events))

\* a turn of the completion loop that streamed two text segments
C1_Witness ==
    /\ variant = "route"
    /\ TurnAnswered
    /\ verdict # NoCall
    /\ ~verdict.flagged
    /\ CountOf(events, "text-start") = 2

----------------------------------------------------------------------------
(* Properties of the moderation gate *)

\* the texts carried by the text-delta events of a stream
DeltasOf(ev) ==
    LET ds == SelectSeq(ev, LAMBDA e : e.type = "text-delta")
    IN  [i \in DOMAIN ds |-> ds[i].delta]

\* C2: once the moderation gate has answered flagged=true, the completion
\* loop and its inference and tool calls are never invoked, and the stream
\* returned carries one text only: the verdict's denialMessage, or a fixed
\* default string when the verdict has none.
C2_FlaggedNeverGenerates ==
    (verdict # NoCall /\ verdict # Failure /\ verdict.flagged)
        => /\ calls.inference = 0
           /\ calls.tool = 0
           /\ pc = "done"
           /\ response = StreamResponse
           /\ Len(DeltasOf(events)) = 1
           /\ IF verdict.denialMessage # Undefined
              THEN DeltasOf(events)[1] = verdict.denialMessage
              ELSE DeltasOf(events)[1].t = "lit"

----------------------------------------------------------------------------
(* Properties of the image pipeline *)

\* an OCR output that is empty or is the unreadable sentinel
Unreadable(out) ==
    out \in {Undefined, Str(""), Str("UNREADABLE"), Str("NOT_FOUND")}

CouldNotReadMessages ==
    {"Could not detect ingredients.", "Could not detect ingredients. Try another image."}

\* C3: after an extraction that returned an empty result or the sentinel
\* UNREADABLE / NOT_FOUND, the classification stage is never called, no
\* sentinel is its input, and the request ends with the fixed
\* could-not-read message.
C3_SentinelStopsPipeline ==
    /\ (ocrOutput # NoCall /\ Unreadable(ocrOutput))
          => /\ calls.classify = 0
             /\ pc = "done"
             /\ \E m \in CouldNotReadMessages :
                   response = JsonResponse(200, [response |-> Lit(m)])
    /\ classifierInput # NoCall
          => classifierInput \notin {Str("UNREADABLE"), Str("NOT_FOUND")}

\* a classifier output made of prose followed by JSON cut before its closing braces
Unrecoverable(out) == out \notin {NoCall, Undefined, Failure} /\ out.wrap = "truncated"

CouldNotEvaluateMessages ==
    {"Safety evaluation failed. Try another image.",
     "Could not format safety results. Try another image."}

\* C4: when the classifier's output cannot be parsed into the structured
\* record, the request ends with the fixed could-not-evaluate response: no
\* exception leaves the handler and the status is not 500.
C4_UnparseableEndsGracefully ==
    (path = "image" /\ classifierOutput # NoCall /\ Unrecoverable(classifierOutput))
        => /\ pc = "done"
           /\ response # Fault
           /\ response.status # 500
           /\ \E m \in CouldNotEvaluateMessages :
                 response.body = [response |-> Lit(m)]

----------------------------------------------------------------------------
(* Properties of the completion loop *)

\* the maximum number of rounds each version configures
ConfiguredMaxRounds(v) ==
    CASE v \in {"part_006", "part_011"} -> 5
      [] OTHER                          -> 10

\* C5: the number of rounds of a completion loop, each a call to the
\* inference service, never exceeds the configured maximum (10 in route.ts),
\* whatever the service answers.
C5_RoundsBounded == calls.inference <= ConfiguredMaxRounds(variant)

\* a loop of route.ts that ran all of its ten rounds
C5_Witness ==
    /\ variant = "route"
    /\ pc = "done"
    /\ calls.inference = 10

\* every round so far asked for a tool
OnlyToolRounds == calls.inference > 0 /\ calls.tool = calls.inference

\* C6: with an inference service that asks for a tool on every round, the
\* completion loop comes to an end: it makes exactly maxRounds calls to the
\* inference service and never one more, and closes the stream with the one
\* `finish`, last, after whatever text the rounds produced.
C6_AlwaysToolTerminates ==
    /\ [](pc = "loop" => calls.inference < ConfiguredMaxRounds(variant))
    /\ []((pc = "done" /\ OnlyToolRounds)
             => /\ calls.inference = ConfiguredMaxRounds(variant)
                /\ response = StreamResponse
                /\ events[Len(events)] = Finish
                /\ CountOf(events, "finish") = 1)
    /\ (pc = "loop") ~> (pc = "done")

\* ten rounds of route.ts that each asked for a tool, none with any text
C6_Witness ==
    /\ variant = "route"
    /\ pc = "done"
    /\ OnlyToolRounds
    /\ calls.tool = 10
    /\ CountOf(events, "text-start") = 0

----------------------------------------------------------------------------
(* Properties of the router *)

\* a content type that names multipart/form-data
Indicates(ct) == \E i \in DOMAIN ct : ct[i] = "multipart/form-data"

\* C7: the router decides from the content-type header alone: a request
\* whose content type indicates multipart/form-data goes to the image
\* pipeline, any other request has its body read as JSON and goes to the
\* text path, and a request never touches the stages of the other path.
C7_RoutedByContentType ==
    /\ [][pc = "idle"
            => /\ path' = IF Indicates(request.contentType) THEN "image" ELSE "text"
               /\ bodyReads' = IF Indicates(request.contentType)
                               THEN << "formData" >> ELSE << "json" >>]_vars
    /\ [](path = "image" => calls.moderation = 0 /\ calls.inference = 0 /\ calls.tool = 0)
    /\ [](path = "text" => calls.ocr = 0 /\ calls.classify = 0)

\* a multipart header with a boundary parameter took the image path
C7_Witness ==
    /\ path = "image"
    /\ pc = "ocr"
    /\ request.contentType = << "multipart/form-data", "; boundary=x" >>

\* a body that is neither a multipart form nor a JSON { messages } document
Malformed(body) == body.kind \in {"garbage", "jsonOther"}

\* C8: a request whose body can be parsed neither as a multipart form nor as
\* JSON { messages } is answered at once with a 4xx response, and moderation,
\* inference and tools are not called.
C8_MalformedIs4xx ==
    [][(pc = "idle" /\ Malformed(request.body))
          => /\ pc' = "done"
             /\ response'.status \in 400..499
             /\ calls' = NoCalls]_vars

\* C9: a multipart request without the `image` field is answered with the
\* JSON { response: "No image uploaded." } and a 4xx status, and neither the
\* extraction nor the classification stage is called.
C9_MissingImageIs4xx ==
    [][(pc = "idle" /\ Indicates(request.contentType)
           /\ request.body.kind = "form" /\ ~request.body.hasImage)
          => /\ pc' = "done"
             /\ response'.kind \in {"json", "jsonText"}
             /\ response'.body = [response |-> Lit("No image uploaded.")]
             /\ response'.status \in 400..499
             /\ calls'.ocr = 0
             /\ calls'.classify = 0]_vars

\* the texts of the text parts of a message, one after the other
RECURSIVE Concatenation(_)
Concatenation(parts) ==
    IF parts = << >> THEN << >>
    ELSE (IF Head(parts).type = "text" THEN Head(parts).text ELSE << >>)
         \o Concatenation(Tail(parts))

\* the last message of a conversation whose role is user
MostRecentUser(msgs) ==
    msgs[CHOOSE i \in DOMAIN msgs :
            /\ msgs[i].role = "user"
            /\ \A j \in DOMAIN msgs : j > i => msgs[j].role # "user"]

\* C10: the text handed to the moderation service is the texts of the text
\* parts of the most recent user message, in order, one after the other with
\* nothing between them; parts of other types add nothing.
C10_ModerationTextExact ==
    pc = "moderation"
        => modRequest.chars = Concatenation(MostRecentUser(request.body.messages).parts)

----------------------------------------------------------------------------
(* Properties of the moderation gate, continued *)

\* the latest message of a conversation is not the user's, or holds no text part
AutoPasses(msgs) ==
    /\ msgs # << >>
    /\ \/ msgs[Len(msgs)].role # "user"
       \/ \A i \in DOMAIN msgs[Len(msgs)].parts : msgs[Len(msgs)].parts[i].type # "text"

\* C11: when the latest message of the conversation is not the user's, or
\* has no text part, the moderation gate lets the turn through whatever the
\* moderation service would say: the turn goes on to generation.
C11_NoUserTextPasses ==
    [][(pc = "moderation" /\ AutoPasses(request.body.messages) /\ verdict' # Failure)
          => pc' = "loop"]_vars

----------------------------------------------------------------------------
(* Properties of the structured-output extraction *)

\* the versions that hand the parsed value back as JSON
JsonPipelineVariants == {"route", "part_001"}

\* the image branch has handled an output text of the classifier
Extraction == path = "image" /\ classifierOutput \notin {NoCall, Failure}

\* C13: the extraction is total: whatever text the classifier returns (none,
\* the empty string, prose alone, a fenced block with a trailing comma, ...)
\* the handler does not throw, and what it extracted is a record: the one
\* the text denotes or the explicit no-result record.
C13_ExtractionTotal ==
    (variant \in JsonPipelineVariants /\ Extraction)
        => /\ pc = "done"
           /\ response # Fault
           /\ response.body.response.value.t = "object"

\* C14: a well-formed analysis result (ingredients, score, summary) written
\* as the JSON text the prompt asks for and run through the parse step comes
\* back field for field: same ingredients, same score, same summary, and
\* nothing else.
C14_RoundTrip ==
    (extraction.stage = "parsed" /\ extraction.wrap = "bare")
        => /\ ~extraction.caught
           /\ DOMAIN extraction.parsed = {"ingredients", "score", "summary"}
           /\ extraction.parsed.ingredients = extraction.original.ingredients
           /\ extraction.parsed.score = extraction.original.score
           /\ extraction.parsed.summary = extraction.original.summary

\* a result with two ingredients, the score 0 and an empty summary came back
C14_Witness ==
    /\ extraction.stage = "parsed"
    /\ extraction.wrap = "bare"
    /\ Len(extraction.original.ingredients) = 2
    /\ extraction.original.score = 0
    /\ extraction.original.summary = ""
    /\ extraction.parsed.ingredients[1].classification = "IRRITANT"
    /\ extraction.parsed.ingredients[2].classification = "SAFE"

\* C15: when the classifier's text holds one well-formed JSON object inside
\* a fenced block, or with prose before or after it, the extraction drops
\* the wrapping and returns that object, not the no-result record.
C15_WrappingDiscarded ==
    (extraction.stage = "parsed"
        /\ extraction.wrap \in {"fenced", "prose", "proseAfter"})
        => /\ ~extraction.caught
           /\ DOMAIN extraction.parsed = {"ingredients", "score", "summary"}
           /\ extraction.parsed.ingredients = extraction.original.ingredients
           /\ extraction.parsed.score = extraction.original.score
           /\ extraction.parsed.summary = extraction.original.summary

----------------------------------------------------------------------------
(* Properties of the response stream, continued *)

\* C17: in every response stream `finish` is the last event: no event
\* follows a `finish`, and once `finish` has been written the stream gets
\* no further event.
C17_FinishIsLast ==
    /\ [](\A i \in DOMAIN events : events[i].type = "finish" => i = Len(events))
    /\ [][(events # << >> /\ events[Len(events)].type = "finish")
             => events' = events]_vars

\* the short-circuit stream of route.ts, written to its end
C17_Witness ==
    /\ variant = "route"
    /\ verdict \notin {NoCall, Failure}
    /\ verdict.flagged
    /\ Len(events) = 5
    /\ events[5] = Finish

----------------------------------------------------------------------------
(* Properties of the image pipeline, continued *)

\* C18: on the image path a failure (an error of the service, a timeout)
\* of the extraction call or of the classification call ends the request
\* with a response the handler wrote; it never leaves the handler as an
\* unhandled exception.
C18_ImageFailureGraceful ==
    (path = "image" /\ (ocrOutput = Failure \/ classifierOutput = Failure))
        => /\ pc = "done"
           /\ response # Fault
           /\ response.kind \in {"json", "jsonText"}

\* the versions that run the image through sharp inside a try/catch
SharpVariants == {"route", "part_001"}

\* a multipart upload whose image sharp cannot process
UndecodableUpload ==
    /\ pc = "idle"
    /\ Indicates(request.contentType)
    /\ request.body.kind = "form"
    /\ request.body.hasImage
    /\ ~request.body.decodable

\* C19: a failure of the image preprocessing (rotation) is swallowed: the
\* handler goes on to the extraction call with the bytes as they were
\* uploaded, and the request does not end because of it.
C19_SharpFailureSwallowed ==
    [][(UndecodableUpload /\ variant \in SharpVariants)
          => /\ pc' = "ocr"
             /\ imageBytes' = "original"
             /\ calls'.ocr = 1
             /\ response' = NoResponse]_vars

\* route.ts waits for the OCR answer on the uploaded bytes after sharp failed
C19_Witness ==
    /\ variant = "route"
    /\ pc = "ocr"
    /\ request.body.hasImage
    /\ ~request.body.decodable
    /\ imageBytes = "original"

----------------------------------------------------------------------------
(* Order of the stages *)

\* an external call that has returned a result
Returned(out) == out \notin {NoCall, Failure}

\* C20: the stages of one request run one after the other.  On the text
\* path nothing is generated or streamed while the moderation verdict is
\* awaited, and generation only runs once the verdict, when one was asked
\* for, has returned.  On the image path the classification call is not
\* made while the extraction call is awaited, and only after it returned.
C20_StagesSequential ==
    /\ pc = "moderation"
          => calls.inference = 0 /\ events = << >> /\ response = NoResponse
    /\ (pc = "loop" \/ calls.inference > 0)
          => (calls.moderation = 0 \/ Returned(verdict))
    /\ pc = "ocr" => calls.classify = 0
    /\ calls.classify > 0 => Returned(ocrOutput)

\* route.ts generating after the verdict it asked for
C20_Witness ==
    /\ variant = "route"
    /\ pc = "loop"
    /\ calls.moderation = 1
    /\ calls.inference = 1
    /\ Returned(verdict)
    /\ ~verdict.flagged

----------------------------------------------------------------------------
(* Properties of the body reads and of the calls of each path *)

\* C23: the body of a request is read exactly once, by the reader of the
\* path chosen from the content-type header: nothing is read before the
\* path is chosen, the image path reads the form and nothing else, the text
\* path parses the JSON document and nothing else.
C23_BodyReadOnce ==
    /\ path = "none" => bodyReads = << >>
    /\ path = "image" => bodyReads = << "formData" >>
    /\ path = "text" => bodyReads = << "json" >>

\* a conversation taken through two rounds of the loop after one read
C23_Witness ==
    /\ path = "text"
    /\ pc = "done"
    /\ calls.inference = 2
    /\ bodyReads = << "json" >>

\* C26: the external calls of the two paths are disjoint: a request on the
\* image path never reaches the moderation service, the inference loop or a
\* tool and gets no verdict and no stream event, and a request on the text
\* path never reaches the OCR call or the classification call and gets no
\* output of either.
C26_PathsExclusive ==
    /\ path = "image"
         => /\ calls.moderation = 0 /\ calls.inference = 0 /\ calls.tool = 0
            /\ verdict = NoCall /\ modRequest = NoCall /\ events = << >>
            /\ pc \notin {"moderation", "loop"}
    /\ path = "text"
         => /\ calls.ocr = 0 /\ calls.classify = 0
            /\ ocrOutput = NoCall /\ classifierOutput = NoCall
            /\ imageBytes = "none"
            /\ pc \notin {"ocr", "analysis"}

\* an upload answered after both calls of the image path
C26_Witness ==
    /\ path = "image"
    /\ pc = "done"
    /\ calls.ocr = 1
    /\ calls.classify = 1
    /\ response.status = 200

\* C27: on the image path each of the two calls is made at most once: the
\* classification call only after the OCR call, no call after a call has
\* failed, and none after the classifier's output has come back, parseable
\* or not.
C27_NoRetry ==
    path = "image"
        => /\ calls.ocr <= 1 /\ calls.classify <= 1
           /\ calls.classify <= calls.ocr
           /\ ocrOutput = Failure => (calls.classify = 0 /\ pc = "done")
           /\ classifierOutput # NoCall => pc = "done"
           /\ pc = "ocr" => (calls.ocr = 1 /\ calls.classify = 0)
           /\ pc = "analysis" => (calls.ocr = 1 /\ calls.classify = 1)

\* an upload whose classifier output was cut short: answered, not asked again
C27_Witness ==
    /\ path = "image"
    /\ pc = "done"
    /\ classifierOutput \in {JsonText("truncated", v) : v \in JsonValues}
    /\ calls.ocr = 1
    /\ calls.classify = 1

----------------------------------------------------------------------------
(* Properties of the rendering stage *)

\* the versions whose rendering of a parsed result the claims below look at
RenderVariants == {"route", "part_007", "part_008"}

\* a classifier output that is the bare JSON text of a result whose
\* ingredients all carry a status of the enumeration
EnumeratedResults ==
    {JsonText("bare", JRecord(l)) :
        l \in {k \in IngredientLists(MaxIngredients) :
                  \A i \in DOMAIN k : k[i].status # Undefined}}

\* rows of one status stand together
Grouped(rows) ==
    \A i, j, k \in DOMAIN rows :
        (i < j /\ j < k /\ rows[i].status = rows[k].status)
            => rows[j].status = rows[i].status

\* C24: the rendering stage turns a structured result into a report: every
\* ingredient of the result has a row carrying the marker of its status,
\* the rows are grouped by status, and the markers of two different
\* statuses of the enumeration differ.
C24_ReportRendered ==
    /\ \A a, b \in Statuses : a # b => Marker(Lit(a)) # Marker(Lit(b))
    /\ (/\ variant \in RenderVariants
        /\ path = "image"
        /\ pc = "done"
        /\ classifierOutput \in EnumeratedResults)
         => LET l == classifierOutput.value.ingredients.items
                report == response.body.response
            IN  /\ report.t = "report"
                /\ \A i \in DOMAIN l :
                      \E j \in DOMAIN report.rows :
                          /\ report.rows[j].name = l[i].name
                          /\ report.rows[j].marker = Marker(l[i].status)
                /\ Grouped(report.rows)

\* C25: the render step is guarded: whatever text the classifier returns,
\* none, the empty text and valid JSON without an `ingredients` array
\* included, the image path answers with a response of its own and no
\* exception leaves the handler.
C25_RenderGuarded ==
    (/\ variant \in RenderVariants
     /\ path = "image"
     /\ pc = "done"
     /\ classifierOutput \in ClassifierOutputs)
        => /\ response.kind = "json"
           /\ response.status = 200

----------------------------------------------------------------------------
(* The upload page: the change handler of the file input, version by version *)

\* uploads started from one page
MaxUploads == 2
\* last value of the millisecond clock
MaxNow == 1

\* the versions of the handler: the two Page components of app/page.tsx
\* (onFileChange at lines 46 and 197), handleFile of part_000 and the inline
\* onChange of part_001
Pages == {"page.tsx:46", "page.tsx:197", "part_000", "part_001"}

\* a message id: a literal prefix, given by its pieces, then Date.now()
MsgId(pre, t) == [prefix |-> pre, at |-> t]
\* String.prototype.startsWith on an id
StartsWith(id, pre) ==
    /\ Len(pre) <= Len(id.prefix)
    /\ SubSeq(id.prefix, 1, Len(pre)) = pre

\* an assistant message with one text part; `by` notes the upload that added it
Msg(id, text, u) == [id |-> id, role |-> "assistant", text |-> text, by |-> u]

\* the temporary message (each version words it in its own way)
Analyzing == Lit("Analyzing image...")
AnalyzingId(pg, t) ==
    IF pg = "part_001" THEN MsgId(<< "temp-" >>, t)
    ELSE MsgId(<< "ocr-", "analyzing", "-" >>, t)
ResultId(pg, t) ==
    IF pg = "part_001" THEN MsgId(<< "ans-" >>, t) ELSE MsgId(<< "ocr-" >>, t)
ErrorId(t) == MsgId(<< "ocr-", "error", "-" >>, t)

\* prev.filter(m => !String(m.id).startsWith("ocr-"))
WithoutOld(msgs) ==
    LET Keep(m) == ~StartsWith(m.id, << "ocr-" >>) IN SelectSeq(msgs, Keep)
\* prev.filter(m => m.id !== id)
Without(msgs, id) ==
    LET Keep(m) == m.id # id IN SelectSeq(msgs, Keep)

\* fetch rejects: the network is down, the request is aborted
FetchThrows == [kind |-> "throws", status |-> 0, body |-> [none |-> Undefined]]
\* what fetch("/api/chat") resolves to for an upload: the answers of the
\* image branch of route.ts and of part_009 to a well-formed result, to an
\* output that is no JSON, to a form without image and to an exception
UploadAnswers ==
    UNION { { AnalysisResponse(v, JsonText("bare", JRecord(<< >>)), Str("water, glycerin")),
              AnalysisResponse(v, ProseOnlyText, Str("water, glycerin")),
              MissingFileResponse(v),
              ImageFailure(v) } : v \in {"route", "part_009"} }

\* res.ok
ResOk(ans) == ans.status >= 200 /\ ans.status <= 299
\* res.json() rejects when the body is not a JSON text
JsonThrows(ans) == ans.kind \notin {"json", "jsonText"}
\* json.f, undefined when the object has no such field
Field(json, f) == IF f \in DOMAIN json THEN json[f] ELSE Undefined

\* the text of an error message: a lead, then `detail || fallback`
ErrorText(lead, detail, fallback) ==
    [t |-> "error", lead |-> lead,
     detail |-> IF detail = Undefined THEN fallback ELSE detail]

\* the message list after the await of fetch and of res.json() has settled
\* with `ans`: the try block, its catch, or neither in part_001
Settled(pg, msgs, id, t, ans, u) ==
    LET threw == ans = FetchThrows \/ JsonThrows(ans)
        json == ans.body
        NotAnalyzing(m) == ~StartsWith(m.id, << "ocr-", "analyzing" >>)
    IN  CASE pg = "page.tsx:46" ->
               IF threw
               THEN Append(SelectSeq(msgs, NotAnalyzing),
                           Msg(ErrorId(t), ErrorText("Upload failed: ", Undefined, Lit("err")), u))
               ELSE IF Field(json, "ok") = Undefined
               THEN Append(Without(msgs, id),
                           Msg(ErrorId(t),
                               ErrorText("Error: ", Field(json, "error"), Lit("unknown")), u))
               ELSE Append(Without(msgs, id), Msg(ResultId(pg, t), Field(json, "result"), u))
          [] pg = "page.tsx:197" ->
               IF threw
               THEN Append(Without(msgs, id),
                           Msg(ErrorId(t), ErrorText("Upload failed: ", Undefined, Lit("err")), u))
               ELSE IF ~ResOk(ans)
               THEN Append(Without(msgs, id),
                           Msg(ErrorId(t),
                               ErrorText("Error: ", Field(json, "error"), Lit("statusText")), u))
               ELSE Append(Without(msgs, id), Msg(ResultId(pg, t), Field(json, "response"), u))
          [] pg = "part_000" ->
               IF ans = FetchThrows \/ ~ResOk(ans) \/ JsonThrows(ans)
               THEN Append(Without(msgs, id),
                           Msg(ErrorId(t),
                               ErrorText("Error processing image: ", Undefined, Lit("err")), u))
               ELSE Append(Without(msgs, id), Msg(ResultId(pg, t), Field(json, "response"), u))
          [] OTHER ->
               IF threw THEN msgs
               ELSE Append(msgs, Msg(ResultId(pg, t), Field(json, "response"), u))

\* an upload whose change event has not happened yet
NotStarted == [pc |-> "idle", analyzingId |-> NoCall, during |-> {}, answer |-> NoCall]
\* the uploads whose handler stands at an await
InFlight == {u \in DOMAIN uploads : uploads[u].pc \in {"resizing", "fetching"}}

PageInit ==
    /\ HandlerIdle
    /\ extraction = NoExtraction
    /\ PairIdle
    /\ page \in Pages
    /\ messages = << Msg(MsgId(<< "welcome-" >>, 0), Lit("Hello"), 0) >>
    /\ loading = FALSE
    /\ uploads = [u \in 1..MaxUploads |-> NotStarted]
    /\ now = 0

\* the change event of the file input, up to the first await.  (An event
\* without a file returns at once and changes nothing.)
OnFileChange(u) ==
    /\ uploads[u].pc = "idle"
    /\ \A v \in 1..(u - 1) : uploads[v].pc # "idle"
    /\ CASE page = "page.tsx:46" ->
              /\ loading' = TRUE
              /\ messages' = Append(WithoutOld(messages),
                                    Msg(AnalyzingId(page, now), Analyzing, u))
              /\ uploads' = [uploads EXCEPT ![u] =
                                [pc |-> "resizing", analyzingId |-> AnalyzingId(page, now),
                                 during |-> InFlight, answer |-> NoCall]]
         [] page = "part_001" ->
              /\ messages' = Append(messages, Msg(AnalyzingId(page, now), Analyzing, u))
              /\ uploads' = [uploads EXCEPT ![u] =
                                [pc |-> "fetching", analyzingId |-> NoCall,
                                 during |-> InFlight, answer |-> NoCall]]
              /\ UNCHANGED loading
         [] OTHER ->
              /\ uploads' = [uploads EXCEPT ![u] =
                                [pc |-> "resizing", analyzingId |-> NoCall,
                                 during |-> InFlight, answer |-> NoCall]]
              /\ UNCHANGED <<messages, loading>>
    /\ UNCHANGED <<page, now, handlerVars, extraction, pairVars>>

\* the await of the client-side resize settles, resolved or rejected: the
\* upload goes on with the resized blob or with the file
ResizeSettles(u) ==
    /\ uploads[u].pc = "resizing"
    /\ IF page = "page.tsx:46"
       THEN /\ uploads' = [uploads EXCEPT ![u].pc = "fetching"]
            /\ UNCHANGED messages
       ELSE /\ messages' = Append(WithoutOld(messages),
                                  Msg(AnalyzingId(page, now), Analyzing, u))
            /\ uploads' = [uploads EXCEPT ![u].pc = "fetching",
                                          ![u].analyzingId = AnalyzingId(page, now)]
    /\ UNCHANGED <<page, loading, now, handlerVars, extraction, pairVars>>

\* the awaits of fetch and of res.json() settle: the rest of the handler
FetchSettles(u) ==
    /\ uploads[u].pc = "fetching"
    /\ \E ans \in UploadAnswers \cup {FetchThrows} :
         /\ messages' = Settled(page, messages, uploads[u].analyzingId, now, ans, u)
         /\ uploads' = [uploads EXCEPT ![u].pc = "done", ![u].answer = ans]
    /\ loading' = IF page = "page.tsx:46" THEN FALSE ELSE loading
    /\ UNCHANGED <<page, now, handlerVars, extraction, pairVars>>

\* a millisecond passes
Tick ==
    /\ now < MaxNow
    /\ now' = now + 1
    /\ UNCHANGED <<page, messages, loading, uploads, handlerVars, extraction, pairVars>>

PageNext ==
    \/ \E u \in 1..MaxUploads : OnFileChange(u)
    \/ \E u \in 1..MaxUploads : ResizeSettles(u)
    \/ \E u \in 1..MaxUploads : FetchSettles(u)
    \/ Tick

PageSpec == PageInit /\ [][PageNext]_vars

----------------------------------------------------------------------------
(* Properties of the upload page *)

\* the two upload handlers of app/page.tsx
PageTsx == {"page.tsx:46", "page.tsx:197"}

\* the server answered the upload with 200 and a JSON body { response }
Successful(ans) ==
    /\ ans.kind \in {"json", "jsonText"}
    /\ ResOk(ans)
    /\ "response" \in DOMAIN ans.body

\* C28: client and server agree on the answer of the image path: when the
\* server answers an upload with 200 and { response: text }, the upload
\* handler of the page leaves exactly one message of that upload in the
\* list, an assistant message whose text is that response and which is
\* not an error message.
C28_UploadAnswerShown ==
    [][\A u \in 1..MaxUploads :
          (/\ page \in PageTsx
           /\ uploads[u].pc = "fetching"
           /\ uploads'[u].pc = "done"
           /\ Successful(uploads'[u].answer))
             => LET Mine(m) == m.by = u
                    mine == SelectSeq(messages', Mine)
                IN  /\ Len(mine) = 1
                    /\ mine[1].role = "assistant"
                    /\ mine[1].text = uploads'[u].answer.body.response
                    /\ ~StartsWith(mine[1].id, << "ocr-", "error" >>)]_vars

\* C29: the temporary message is gone once the handler has finished: for an
\* upload whose handler has run to its end, by success, by an error status
\* or by an exception of fetch or of the JSON decoding, the list holds no
\* temporary message added by that upload.
C29_AnalyzingTransient ==
    \A u \in DOMAIN uploads :
        uploads[u].pc = "done"
            => \A i \in DOMAIN messages :
                  ~(messages[i].by = u /\ messages[i].text = Analyzing)

\* C30: two uploads of which the second starts before the first has
\* finished: once both handlers have finished the list holds at most one
\* message whose id starts with ocr-, that of the upload started last, and
\* while an upload is in flight the `loading` flag is true.
C30_LastUploadWins ==
    /\ (/\ page \in PageTsx
        /\ \A u \in DOMAIN uploads : uploads[u].pc = "done"
        /\ \E u \in DOMAIN uploads : uploads[u].during # {})
         => LET IsOcr(m) == StartsWith(m.id, << "ocr-" >>)
                ocr == SelectSeq(messages, IsOcr)
            IN  /\ Len(ocr) <= 1
                /\ \A i \in DOMAIN ocr : ocr[i].by = MaxUploads
    /\ (page = "page.tsx:46" /\ InFlight # {}) => loading

----------------------------------------------------------------------------
(* Two requests at once.  Each call of POST has its own locals; the module *)
(* itself holds the `openai` client and constants, which no call writes.   *)
(* The handler variables are the locals of the invocation that is running; *)
(* at an await the event loop may run the other invocation instead.        *)

\* the versions looked at two requests at a time
PairVariants == {"route", "part_001"}

\* the requests of a pair: an upload, a form without image, a conversation
\* of one user message, bytes that are no JSON, each under either header
PairRequests ==
    {r \in Requests :
        /\ r.contentType \in {<< "application/json" >>,
                              << "multipart/form-data", "; boundary=x" >>}
        /\ r.body \in {[kind |-> "form", hasImage |-> TRUE, decodable |-> TRUE],
                       [kind |-> "form", hasImage |-> FALSE, decodable |-> FALSE],
                       [kind |-> "messages",
                        messages |-> << Message("user", << TextPart(<< "a" >>) >>) >>],
                       [kind |-> "garbage"]}}

\* the locals of the running invocation
Frame ==
    [request |-> request, pc |-> pc, path |-> path, bodyReads |-> bodyReads,
     imageBytes |-> imageBytes, extracted |-> extracted,
     classifierInput |-> classifierInput, modRequest |-> modRequest,
     ocrOutput |-> ocrOutput, classifierOutput |-> classifierOutput,
     verdict |-> verdict, calls |-> calls, events |-> events, response |-> response]

\* a variation: `extracted` declared at module level, shared by all calls
ResumeSharesExtracted(f) ==
    /\ request' = f.request
    /\ pc' = f.pc
    /\ path' = f.path
    /\ bodyReads' = f.bodyReads
    /\ imageBytes' = f.imageBytes
    /\ UNCHANGED extracted
    /\ classifierInput' = f.classifierInput
    /\ modRequest' = f.modRequest
    /\ ocrOutput' = f.ocrOutput
    /\ classifierOutput' = f.classifierOutput
    /\ verdict' = f.verdict
    /\ calls' = f.calls
    /\ events' = f.events
    /\ response' = f.response

\* the invocation with locals f goes on
Resume(f) ==
    /\ request' = f.request
    /\ pc' = f.pc
    /\ path' = f.path
    /\ bodyReads' = f.bodyReads
    /\ imageBytes' = f.imageBytes
    /\ extracted' = f.extracted
    /\ classifierInput' = f.classifierInput
    /\ modRequest' = f.modRequest
    /\ ocrOutput' = f.ocrOutput
    /\ classifierOutput' = f.classifierOutput
    /\ verdict' = f.verdict
    /\ calls' = f.calls
    /\ events' = f.events
    /\ response' = f.response

PairInit ==
    /\ variant \in PairVariants
    /\ \E r1, r2 \in PairRequests :
         /\ request = r1
         /\ running = [id |-> 1, request |-> r1]
         /\ parked = [id |-> 2, request |-> r2,
                      frame |-> [request |-> r2, pc |-> "idle", path |-> "none",
                                 bodyReads |-> << >>, imageBytes |-> "none",
                                 extracted |-> NoCall, classifierInput |-> NoCall,
                                 modRequest |-> NoCall, ocrOutput |-> NoCall,
                                 classifierOutput |-> NoCall, verdict |-> NoCall,
                                 calls |-> NoCalls, events |-> << >>,
                                 response |-> NoResponse]]
    /\ pc = "idle"
    /\ path = "none"
    /\ bodyReads = << >>
    /\ imageBytes = "none"
    /\ extracted = NoCall
    /\ classifierInput = NoCall
    /\ modRequest = NoCall
    /\ ocrOutput = NoCall
    /\ classifierOutput = NoCall
    /\ verdict = NoCall
    /\ calls = NoCalls
    /\ events = << >>
    /\ response = NoResponse
    /\ delivered = [i \in {1, 2} |-> [kind |-> "none", status |-> 0]]
    /\ overlapped = FALSE
    /\ extraction = NoExtraction
    /\ PageIdle

\* the running invocation has not begun or stands at an await, and the
\* event loop runs the other invocation
Switch ==
    /\ running # NoInvocation
    /\ parked # NoInvocation
    /\ pc \in {"idle", "ocr", "analysis", "moderation"}
    /\ parked' = [id |-> running.id, request |-> running.request, frame |-> Frame]
    /\ running' = [id |-> parked.id, request |-> parked.request]
    /\ Resume(parked.frame)
    /\ overlapped' = (overlapped \/ pc # "idle")
    /\ UNCHANGED <<variant, delivered, extraction, pageVars>>

\* POST has returned: its response goes to its caller, and the invocation
\* that is waiting, if any, goes on
Deliver ==
    /\ running # NoInvocation
    /\ pc \in {"done", "loop"}
    /\ delivered' = [delivered EXCEPT ![running.id] =
                        [kind |-> response.kind, status |-> response.status]]
    /\ IF parked # NoInvocation
       THEN /\ running' = [id |-> parked.id, request |-> parked.request]
            /\ parked' = NoInvocation
            /\ Resume(parked.frame)
       ELSE /\ running' = NoInvocation
            /\ UNCHANGED <<parked, request, pc, path, bodyReads, imageBytes, extracted,
                           classifierInput, modRequest, ocrOutput, classifierOutput,
                           verdict, calls, events, response>>
    /\ UNCHANGED <<variant, overlapped, extraction, pageVars>>

\* the rounds of streamText run behind the response that POST has returned
\* and are left to the one-request specification
PairNext ==
    \/ Dispatch
    \/ OcrReturns
    \/ AnalysisReturns
    \/ ModerationReturns
    \/ Switch
    \/ Deliver

PairSpec == PairInit /\ [][PairNext]_vars

----------------------------------------------------------------------------
(* Properties of two requests at once *)

\* what POST answers to request r when it is the only request, given what
\* its own calls returned: the response and the events of its stream
Alone(v, r, ocr, cls, moderation) ==
    LET none == << >>
        Answer(resp, evs) == [response |-> resp, events |-> evs]
    IN  IF IsMultipart(r.contentType)
        THEN IF ~FormDataOk(r.body) THEN Answer(ImageFailure(v), none)
             ELSE IF ~r.body.hasImage THEN Answer(MissingFileResponse(v), none)
             ELSE IF ocr = Failure THEN Answer(ImageFailure(v), none)
             ELSE IF SentinelGuard(v, Extracted(v, ocr))
             THEN Answer(CouldNotReadResponse(v), none)
             ELSE IF cls = Failure THEN Answer(ImageFailure(v), none)
             ELSE Answer(AnalysisResponse(v, cls, Extracted(v, ocr)), none)
        ELSE IF ~JsonOk(r.body) THEN Answer(BadJsonResponse(v), none)
             ELSE IF EchoesChat(v) THEN Answer(EchoResponse, none)
             ELSE IF r.body.kind = "jsonOther" THEN Answer(Fault, none)
             ELSE IF ~Moderates(v, r.body.messages) THEN Answer(StreamResponse, << Start >>)
             ELSE IF moderation = Failure THEN Answer(Fault, none)
             ELSE IF moderation.flagged /\ BlocksWithPlainResponse(v)
             THEN Answer(BlockedPlainResponse, none)
             ELSE IF moderation.flagged
             THEN Answer(StreamResponse, BlockedEvents(v, moderation))
             ELSE Answer(StreamResponse, << Start >>)

\* C22: requests do not interfere: in every interleaving of two requests
\* at the awaits of the handler, what an invocation has answered when it
\* returns is what the handler answers to that request alone, given the
\* outputs its own calls returned, and an invocation stands at a call of
\* the path of its own request only.
C22_NoInterference ==
    /\ (running # NoInvocation /\ pc \in {"done", "loop"})
         => [response |-> response, events |-> events]
              = Alone(variant, running.request, ocrOutput, classifierOutput, verdict)
    /\ (running # NoInvocation /\ pc \in {"ocr", "analysis"})
         => IsMultipart(running.request.contentType)
    /\ (running # NoInvocation /\ pc = "moderation")
         => ~IsMultipart(running.request.contentType)

\* two uploads whose calls overlapped, both answered with 200
C22_Witness ==
    /\ overlapped
    /\ running = NoInvocation
    /\ delivered[1].status = 200
    /\ delivered[2].status = 200
    /\ delivered[1].kind \in {"json", "jsonText"}
    /\ delivered[2].kind \in {"json", "jsonText"}

=============================================================================
